---- MODULE Spec2Model ----
(***************************************************************************)
(* AudioNotes: the browser-side capture controller (the useAudioRecorder   *)
(* hook) and the server-side process-audio pipeline, as state machines.    *)
(***************************************************************************)
EXTENDS Integers, Sequences, FiniteSets, TLC

(***************************************************************************)
(* Bounds of the model.                                                    *)
(***************************************************************************)
\* startRecording invocations explored in one capture session
MaxStarts == 2
\* non-empty segments explored per MediaRecorder before its stop event
MaxChunks == 1
\* seconds after 0 and before the cap that are explored tick by tick; the
\* seconds between them are explored as one run of consecutive ticks
SlowTicks == 1

\* process-audio requests explored
MaxRequests == 2
\* PUT /api/settings requests explored
MaxPuts == 2
\* of them, those explored beside the process-audio pipeline
MaxPipelinePuts == 1
\* DELETE /api/notes/:id requests explored
MaxDeletes == 2
\* POST /api/users requests explored
MaxSignups == 2
\* the latest time of the server's clock explored
MaxClock == 2

\* calls of MemStorage.createNote explored by the specification of the
\* repository
MaxCreates == 2

\* the cap of the tick updater: `if (prev >= 900)`
MAX_DURATION == 900

\* null where a Blob is expected (audioBlob, the value of a settled promise)
Null == [type |-> "null", data |-> <<>>]

\* what a stopRecording promise has come to
Unsettled(status) == [status |-> status, blob |-> Null]
Resolved(blob) == [status |-> "resolved", blob |-> blob]

Recorders == 1..MaxStarts

(***************************************************************************)
(* State of the capture controller.                                        *)
(*   React state : isRecording, isPaused, duration, audioBlob              *)
(*   refs        : mediaRecorderRef, streamRef, chunksRef, intervalRef     *)
(*                 (0 stands for a null ref)                               *)
(*   browser     : recState (MediaRecorder.state of each recorder made),   *)
(*                 liveStreams (streams with a live track), timers (the    *)
(*                 intervals not cleared), stopQueued (recorders whose     *)
(*                 stop event is queued), resolving (recorders whose       *)
(*                 onstop is the handler stopRecording installed),         *)
(*                 delivered (the non-empty segments each recorder has     *)
(*                 handed out), acquired (streams handed out by       *)
(*                 getUserMedia), pendingStarts (startRecording calls      *)
(*                 suspended at the await), mounted (the recording view is *)
(*                 shown), stopResult (the promise of the last             *)
(*                 stopRecording call the record button made: none yet,    *)
(*                 pending, rejected, or resolved to a blob or null),      *)
(*                 startResult (how the last startRecording promise to     *)
(*                 settle did: none yet, rejected or resolved)             *)
(***************************************************************************)
VARIABLES isRecording, isPaused, duration, audioBlob,
          mediaRecorderRef, streamRef, chunksRef, intervalRef,
          recState, liveStreams, timers, stopQueued, resolving, delivered,
          acquired, pendingStarts, mounted, stopResult, startResult

reactVars == <<isRecording, isPaused, duration, audioBlob>>
refVars == <<mediaRecorderRef, streamRef, chunksRef, intervalRef>>
browserVars == <<recState, liveStreams, timers, stopQueued, resolving, delivered,
                 acquired, pendingStarts, mounted, stopResult, startResult>>
captureVars == <<reactVars, refVars, browserVars>>

(***************************************************************************)
(* State of the recording interface, the component that uses the hook.     *)
(*   isProcessing : its React state                                        *)
(*   mutation     : the status of processMutation (idle, pending, success, *)
(*                  error)                                                 *)
(*   toast        : the last toast shown (none, created, failed)           *)
(***************************************************************************)
VARIABLES isProcessing, mutation, toast

interfaceVars == <<isProcessing, mutation, toast>>

(***************************************************************************)
(* State of the server.                                                    *)
(*   notes, settings : the Maps of MemStorage, as the sequence of their    *)
(*                     entries [key, value] in insertion order             *)
(*   files           : the paths that exist under uploads/                 *)
(*   uuids, uploads  : how many randomUUID() values and how many upload    *)
(*                     file names have been generated                      *)
(*   req             : the process-audio requests: where each is in its    *)
(*                     handler, what it read and what it answered          *)
(*   users           : the third Map of MemStorage                         *)
(*   clock           : the time new Date() returns                         *)
(*   put, del, usr   : the PUT /api/settings, DELETE /api/notes/:id and    *)
(*                     POST /api/users requests, likewise                  *)
(*   audio           : the last answer of GET /api/audio/:filename         *)
(*   microtasks      : the handlers suspended at an await of a repository  *)
(*                     method, in the order they resume                    *)
(*   draining        : the microtask queue is being run                    *)
(***************************************************************************)
VARIABLES notes, settings, files, uuids, uploads, req,
          users, clock, put, del, usr, audio, microtasks, draining

storeVars == <<notes, settings, users, files, uuids, uploads, clock>>
loopVars == <<microtasks, draining>>

serverVars == <<storeVars, req, put, del, usr, audio, loopVars>>

vars == <<captureVars, interfaceVars, serverVars>>

(***************************************************************************)
(* Pure helpers of the capture controller.                                 *)
(***************************************************************************)
RECURSIVE Concat(_)
Concat(parts) ==
    IF parts = <<>> THEN <<>> ELSE Head(parts).data \o Concat(Tail(parts))

\* new Blob(chunksRef.current, { type: 'audio/webm' })
NewBlob(chunks) == [type |-> "audio/webm", data |-> Concat(chunks)]

\* event.data of a dataavailable event of recorder r: empty (size 0), or the
\* k-th non-empty segment of r
Segment(r, k, nonEmpty) ==
    [rec |-> r, seq |-> k,
     size |-> IF nonEmpty THEN 1 ELSE 0,
     data |-> IF nonEmpty THEN << <<r, k>> >> ELSE <<>>]

\* the non-empty segments a recorder has handed out, in order
Delivered(sofar, seg) ==
    IF seg.size > 0 THEN Append(sofar, seg) ELSE sofar

\* mediaRecorder.ondataavailable
OnDataAvailable(chunks, seg) ==
    IF seg.size > 0 THEN Append(chunks, seg) ELSE chunks

\* the updater without its cap
NextDurationUncapped(prev) == prev + 1

\* the updater handed to setDuration by the interval callback
NextDuration(prev) ==
    IF prev >= MAX_DURATION THEN MAX_DURATION ELSE prev + 1

\* the updater calls stopRecording() on this branch
TickStops(prev) == prev >= MAX_DURATION

\* the updater applied by k consecutive firings of the interval: the first
\* half of the firings gives m, the second half is applied to m (binding m
\* to a value keeps the evaluation shallow)
RECURSIVE DurationAfter(_, _)
DurationAfter(prev, k) ==
    IF k = 0 THEN prev
    ELSE IF k = 1 THEN NextDuration(prev)
    ELSE CHOOSE d \in {DurationAfter(m, k - (k \div 2)) :
                         m \in {DurationAfter(prev, k \div 2)}} : TRUE

CaptureInit ==
    /\ isRecording = FALSE
    /\ isPaused = FALSE
    /\ duration = 0
    /\ audioBlob = Null
    /\ mediaRecorderRef = 0
    /\ streamRef = 0
    /\ chunksRef = <<>>
    /\ intervalRef = 0
    /\ recState = [r \in Recorders |-> "none"]
    /\ liveStreams = {}
    /\ timers = {}
    /\ stopQueued = {}
    /\ resolving = {}
    /\ delivered = [r \in Recorders |-> <<>>]
    /\ acquired = 0
    /\ pendingStarts = 0
    /\ mounted = TRUE
    /\ stopResult = Unsettled("none")
    /\ startResult = "none"

(***************************************************************************)
(* startRecording: the call up to `await getUserMedia`.                    *)
(***************************************************************************)
StartCall ==
    /\ mounted
    /\ acquired + pendingStarts < MaxStarts
    /\ pendingStarts' = pendingStarts + 1
    /\ UNCHANGED <<reactVars, refVars, recState, liveStreams, timers, stopQueued,
                   resolving, delivered, acquired, mounted, stopResult, startResult>>

\* getUserMedia rejects, with setIsRecording(true) moved before the await
StartDeniedAfterFlag ==
    /\ mounted
    /\ pendingStarts > 0
    /\ pendingStarts' = pendingStarts - 1
    /\ startResult' = "rejected"
    /\ isRecording' = TRUE
    /\ UNCHANGED <<isPaused, duration, audioBlob, refVars, recState, liveStreams,
                   timers, stopQueued, resolving, delivered, acquired, mounted,
                   stopResult>>

\* getUserMedia rejects: the catch block rethrows, nothing was assigned
StartDenied ==
    /\ mounted
    /\ pendingStarts > 0
    /\ pendingStarts' = pendingStarts - 1
    /\ startResult' = "rejected"
    /\ UNCHANGED <<reactVars, refVars, recState, liveStreams, timers, stopQueued,
                   resolving, delivered, acquired, mounted, stopResult>>

\* getUserMedia resolves and the rest of the try block runs to its end
StartAcquired ==
    /\ mounted
    /\ pendingStarts > 0
    /\ LET s == acquired + 1 IN
        /\ pendingStarts' = pendingStarts - 1
        /\ acquired' = s
        /\ liveStreams' = liveStreams \cup {s}
        /\ streamRef' = s
        /\ chunksRef' = <<>>
        /\ mediaRecorderRef' = s
        /\ recState' = [recState EXCEPT ![s] = "recording"]
        /\ isRecording' = TRUE
        /\ isPaused' = FALSE
        /\ intervalRef' = s
        /\ timers' = timers \cup {s}
        /\ startResult' = "resolved"
    /\ UNCHANGED <<duration, audioBlob, stopQueued, resolving, delivered,
                   mounted, stopResult>>

\* getUserMedia resolves, then `new MediaRecorder` throws (mime type not
\* supported): the catch block rethrows after streamRef and chunksRef were set
StartFailsAfterAcquire ==
    /\ mounted
    /\ pendingStarts > 0
    /\ LET s == acquired + 1 IN
        /\ pendingStarts' = pendingStarts - 1
        /\ acquired' = s
        /\ liveStreams' = liveStreams \cup {s}
        /\ streamRef' = s
        /\ chunksRef' = <<>>
        /\ startResult' = "rejected"
    /\ UNCHANGED <<reactVars, mediaRecorderRef, intervalRef, recState, timers,
                   stopQueued, resolving, delivered, mounted, stopResult>>

(***************************************************************************)
(* mediaRecorder.start(1000): a timeslice of a recording recorder ends and *)
(* its data is handed to ondataavailable, which pushes onto whatever list  *)
(* chunksRef holds at that time.                                           *)
(***************************************************************************)
DataAvailable(r, nonEmpty) ==
    /\ mounted
    /\ recState[r] = "recording"
    /\ Len(delivered[r]) < MaxChunks
    /\ LET seg == Segment(r, Len(delivered[r]) + 1, nonEmpty) IN
        /\ delivered' = [delivered EXCEPT ![r] = Delivered(@, seg)]
        /\ chunksRef' = OnDataAvailable(chunksRef, seg)
    /\ UNCHANGED <<reactVars, mediaRecorderRef, streamRef, intervalRef, recState,
                   liveStreams, timers, stopQueued, resolving, acquired,
                   pendingStarts, mounted, stopResult, startResult>>

(***************************************************************************)
(* pauseRecording, with the isRecording and isPaused of the current        *)
(* render.  MediaRecorder.pause() and resume() throw on an inactive        *)
(* recorder, before setIsPaused is reached.                                *)
(***************************************************************************)
PauseRecording ==
    /\ mounted
    /\ mediaRecorderRef # 0 /\ isRecording
    /\ recState[mediaRecorderRef] # "inactive"
    /\ IF isPaused
         THEN /\ recState' = [recState EXCEPT ![mediaRecorderRef] = "recording"]
              /\ isPaused' = FALSE
         ELSE /\ recState' = [recState EXCEPT ![mediaRecorderRef] = "paused"]
              /\ isPaused' = TRUE
    /\ UNCHANGED <<isRecording, duration, audioBlob, refVars, liveStreams, timers,
                   stopQueued, resolving, delivered, acquired, pendingStarts,
                   mounted, stopResult, startResult>>

\* if (intervalRef.current) { clearInterval(intervalRef.current); intervalRef.current = null; }
ClearInterval ==
    /\ timers' = timers \ {intervalRef}
    /\ intervalRef' = 0

(***************************************************************************)
(* The body of stopRecording, for a closure that captured cIsRecording and *)
(* cAudioBlob.  observed: the caller keeps the promise (handleRecord), so  *)
(* what it settles to is recorded in stopResult.  It leaves duration to    *)
(* the caller.                                                             *)
(***************************************************************************)
StopBody(cIsRecording, cAudioBlob, observed) ==
    IF mediaRecorderRef # 0 /\ cIsRecording
      THEN IF recState[mediaRecorderRef] = "inactive"
             THEN \* MediaRecorder.stop() throws InvalidStateError: the executor
                  \* is left, the promise rejects
                  /\ stopResult' = IF observed THEN Unsettled("rejected") ELSE stopResult
                  /\ resolving' = resolving \cup {mediaRecorderRef}
                  /\ UNCHANGED <<isRecording, isPaused, audioBlob, refVars, recState,
                                 liveStreams, timers, stopQueued, delivered,
                                 acquired, pendingStarts, mounted, startResult>>
             ELSE /\ resolving' = resolving \cup {mediaRecorderRef}
                  /\ recState' = [recState EXCEPT ![mediaRecorderRef] = "inactive"]
                  /\ stopQueued' = stopQueued \cup {mediaRecorderRef}
                  /\ stopResult' = IF observed THEN Unsettled("pending") ELSE stopResult
                  /\ isRecording' = FALSE
                  /\ isPaused' = FALSE
                  /\ ClearInterval
                  /\ UNCHANGED <<audioBlob, mediaRecorderRef, streamRef, chunksRef,
                                 liveStreams, delivered, acquired, pendingStarts,
                                 mounted, startResult>>
      ELSE /\ stopResult' = IF observed THEN Resolved(cAudioBlob) ELSE stopResult
           /\ isRecording' = FALSE
           /\ isPaused' = FALSE
           /\ ClearInterval
           /\ UNCHANGED <<audioBlob, mediaRecorderRef, streamRef, chunksRef, recState,
                          liveStreams, stopQueued, resolving, delivered, acquired,
                          pendingStarts, mounted, startResult>>

\* stopRecording called through a closure that still holds isRecording = true
StopRecordingStale ==
    /\ mounted
    /\ StopBody(TRUE, audioBlob, TRUE)
    /\ UNCHANGED duration

\* stopRecording as the record button calls it: the closure of the current render
StopRecording ==
    /\ mounted
    /\ StopBody(isRecording, audioBlob, TRUE)
    /\ UNCHANGED duration

(***************************************************************************)
(* The closure the interval callback calls.  startRecording is memoized    *)
(* with no dependencies, so the stopRecording it refers to is the one of   *)
(* the first render, which captured the initial isRecording and audioBlob. *)
(***************************************************************************)
TimerIsRecording == FALSE
TimerAudioBlob == Null

\* one firing of interval t
Tick(t) ==
    /\ mounted
    /\ t \in timers
    /\ duration' = NextDuration(duration)
    /\ IF TickStops(duration)
         THEN StopBody(TimerIsRecording, TimerAudioBlob, FALSE)
         ELSE UNCHANGED <<isRecording, isPaused, audioBlob, refVars, browserVars>>

(***************************************************************************)
(* k consecutive firings of interval t with no other event between them,   *)
(* none of which finds the cap reached: each only adds a second.           *)
(***************************************************************************)
TickRun(t, k) ==
    /\ mounted
    /\ t \in timers
    /\ k > 0
    /\ ~TickStops(duration + k - 1)
    /\ duration' = DurationAfter(duration, k)
    /\ UNCHANGED <<isRecording, isPaused, audioBlob, refVars, browserVars>>

\* the seconds explored tick by tick
NearEnds(d) == d < SlowTicks \/ d >= MAX_DURATION - SlowTicks

(***************************************************************************)
(* The task MediaRecorder.stop() queued runs: the last data is handed to   *)
(* ondataavailable, then onstop runs.  The handler installed by            *)
(* startRecording and the one installed by stopRecording differ only in    *)
(* resolve(blob).  State setters of an unmounted component do nothing.     *)
(***************************************************************************)
OnStop(r, nonEmpty) ==
    /\ r \in stopQueued
    /\ LET seg == Segment(r, Len(delivered[r]) + 1, nonEmpty)
           chunks == OnDataAvailable(chunksRef, seg)
           blob == NewBlob(chunks)
       IN  /\ delivered' = [delivered EXCEPT ![r] = Delivered(@, seg)]
           /\ chunksRef' = chunks
           /\ audioBlob' = IF mounted THEN blob ELSE audioBlob
           /\ liveStreams' = liveStreams \ {streamRef}
           /\ streamRef' = 0
           /\ stopResult' = IF r \in resolving THEN Resolved(blob) ELSE stopResult
    /\ stopQueued' = stopQueued \ {r}
    /\ resolving' = resolving \ {r}
    /\ UNCHANGED <<isRecording, isPaused, duration, mediaRecorderRef, intervalRef,
                   recState, timers, acquired, pendingStarts, mounted, startResult>>

\* every track of the stream a recorder records from has ended: the browser
\* stops the recorder and queues its stop event
TracksEnded(r) ==
    /\ recState[r] \in {"recording", "paused"}
    /\ r \notin liveStreams
    /\ recState' = [recState EXCEPT ![r] = "inactive"]
    /\ stopQueued' = stopQueued \cup {r}
    /\ UNCHANGED <<reactVars, refVars, liveStreams, timers, resolving, delivered,
                   acquired, pendingStarts, mounted, stopResult, startResult>>

ResetRecording ==
    /\ mounted
    /\ ClearInterval
    /\ liveStreams' = liveStreams \ {streamRef}
    /\ streamRef' = 0
    /\ isRecording' = FALSE
    /\ isPaused' = FALSE
    /\ duration' = 0
    /\ audioBlob' = Null
    /\ chunksRef' = <<>>
    /\ mediaRecorderRef' = 0
    /\ UNCHANGED <<recState, stopQueued, resolving, delivered, acquired,
                   pendingStarts, mounted, stopResult, startResult>>

\* Home.handleViewChange: the recording view is unmounted; the hook has no
\* cleanup effect
LeaveView ==
    /\ mounted
    /\ mounted' = FALSE
    /\ UNCHANGED <<reactVars, refVars, recState, liveStreams, timers, stopQueued,
                   resolving, delivered, acquired, pendingStarts, stopResult, startResult>>

(***************************************************************************)
(* The server: MemStorage, the two OpenAI calls and the process-audio      *)
(* route.                                                                  *)
(***************************************************************************)
Requests == 1..MaxRequests

DemoUser == "demo-user-123"
\* a user id with no Settings record
OtherUser == "user-2"
\* the x-user-id header: absent (the empty string here) or a user id
UserHeaders == {"", DemoUser, OtherUser}

\* texts the transcription call returns
Transcripts == {"", "hello world"}
\* what new Date().toLocaleDateString() returns on the day of the call
Dates == {"11/4/2026", "11/5/2026"}

\* a JavaScript value used as a condition: `!v`, `v || d`
Truthy(v) == v \notin {"", "null", "undefined", "false"}
OrElse(v, d) == IF Truthy(v) THEN v ELSE d

\* an optional value: <<>> for undefined, <<v>> for v
None == <<>>
Some(v) == <<v>>

(***************************************************************************)
(* A Map: set keeps the place of a key that is present and appends a new   *)
(* one; values() iterates in that order.                                   *)
(***************************************************************************)
MapHas(m, k) == \E i \in 1..Len(m) : m[i].key = k
MapSet(m, k, v) ==
    IF MapHas(m, k)
      THEN [i \in 1..Len(m) |-> IF m[i].key = k THEN [key |-> k, value |-> v] ELSE m[i]]
      ELSE Append(m, [key |-> k, value |-> v])
\* a delete that removes nothing
MapDeleteNothing(m, k) == m
MapDelete(m, k) == SelectSeq(m, LAMBDA e : e.key # k)
MapValues(m) == [i \in 1..Len(m) |-> m[i].value]

\* randomUUID(): the n-th value generated
Uuid(n) == "uuid-" \o ToString(n)
\* multer's filename callback: the n-th upload
UploadPath(n) == "uploads/audio-" \o ToString(n) \o ".webm"

\* MemStorage.getUserSettings
\* (find: the first value, in the Map's order, that matches)
GetUserSettings(userId) ==
    LET hits == SelectSeq(MapValues(settings), LAMBDA st : st.userId = userId) IN
    IF hits = <<>> THEN None ELSE Some(Head(hits))

\* the object GET /api/settings answers with when the user has no record (of
\* its fields, those the model carries)
DefaultSettings ==
    [outputLanguage |-> "en",
     noteOrganizationStyle |-> "structured",
     keepRawAudio |-> "true"]

\* GET /api/settings with a user id: the body of the answer
GetSettingsAnswer(userId) ==
    IF GetUserSettings(userId) = None
      THEN DefaultSettings
      ELSE GetUserSettings(userId)[1]

\* insertSettings.f || null
FieldOrNull(insertSettings, f) ==
    IF f \in DOMAIN insertSettings THEN OrElse(insertSettings[f], "null") ELSE "null"

\* createOrUpdateSettings storing the call's values alone under the old id
UpsertedSettingsReplacing(insertSettings, existing) ==
    IF existing # None
      THEN insertSettings @@ [id |-> existing[1].id]
      ELSE insertSettings @@ [id |-> Uuid(uuids + 1)]

\* MemStorage.createOrUpdateSettings after its await: the record it stores,
\* given what getUserSettings had found before the await
UpsertedSettings(insertSettings, existing) ==
    IF existing # None
      THEN insertSettings @@ existing[1]
      ELSE [id |-> Uuid(uuids + 1),
            userId |-> insertSettings.userId,
            outputLanguage |-> FieldOrNull(insertSettings, "outputLanguage"),
            noteOrganizationStyle |->
                FieldOrNull(insertSettings, "noteOrganizationStyle"),
            keepRawAudio |-> FieldOrNull(insertSettings, "keepRawAudio")]

\* MemStorage.createOrUpdateSettings after its await: the Settings Map
CreateOrUpdateSettings(insertSettings, existing) ==
    LET stored == UpsertedSettings(insertSettings, existing) IN
    MapSet(settings, stored.id, stored)

\* MemStorage.createNote: the Note it builds from insertNote and a fresh id
NewNote(insertNote, id) ==
    [id |-> id,
     userId |-> insertNote.userId,
     title |-> insertNote.title,
     originalTranscription |-> insertNote.originalTranscription,
     aiProcessedNote |-> insertNote.aiProcessedNote,
     audioFilePath |-> OrElse(insertNote.audioFilePath, "null"),
     language |-> OrElse(insertNote.language, "null"),
     createdAt |-> clock]

(***************************************************************************)
(* processNote.  The reply of chat.completions.create is one of            *)
(*   throws, timeout : the call raises                                     *)
(*   nocontent       : choices?.[0]?.message?.content is null or undefined *)
(*   content         : a text, here by what JSON.parse makes of it:        *)
(*                     malformed (SyntaxError), the JSON null, or an       *)
(*                     object with any of the two fields, each the empty   *)
(*                     or a non-empty string                               *)
(***************************************************************************)
JsonObjects ==
    UNION {[fs -> {"", "Greeting"}] : fs \in SUBSET {"title", "processedNote"}}
JsonTexts ==
    {[json |-> "malformed"], [json |-> "null"]}
      \cup {[json |-> "object", fields |-> o] : o \in JsonObjects}
\* the text "{}"
EmptyObjectText == [json |-> "object", fields |-> [k \in {} |-> ""]]
Replies ==
    {[kind |-> "throws"], [kind |-> "timeout"], [kind |-> "nocontent"]}
      \cup {[kind |-> "content", raw |-> t] : t \in JsonTexts}

\* JSON.parse
JsonParse(text) ==
    [threw |-> text.json = "malformed",
     isNull |-> text.json = "null",
     fields |-> IF text.json = "object" THEN text.fields ELSE [k \in {} |-> ""]]

\* result.f || d, for result an object
Property(object, f, d) ==
    IF f \in DOMAIN object THEN OrElse(object[f], d) ELSE d

\* the catch block of processNote
ProcessNoteFallback(transcription, today) ==
    [threw |-> FALSE,
     title |-> "Voice Note " \o today,
     processedNote |-> transcription]

\* processNote without its try/catch: what the try block raises, it raises
ProcessNoteNoCatch(transcription, reply, today) ==
    LET raw == IF reply.kind \in {"throws", "timeout"} THEN [json |-> "malformed"]
               ELSE IF reply.kind = "nocontent" THEN EmptyObjectText
               ELSE reply.raw
        result == JsonParse(raw)
    IN  [threw |-> result.threw \/ result.isNull,
         title |-> Property(result.fields, "title", "Untitled Note"),
         processedNote |-> Property(result.fields, "processedNote", transcription)]

\* processNote with `processedNote: result.processedNote || ""`
ProcessNoteNoDefault(transcription, reply, today) ==
    IF reply.kind \in {"throws", "timeout"}
      THEN ProcessNoteFallback(transcription, today)
      ELSE LET raw == IF reply.kind = "nocontent" THEN EmptyObjectText ELSE reply.raw
               result == JsonParse(raw)
           IN  IF result.threw \/ result.isNull
                 THEN ProcessNoteFallback(transcription, today)
                 ELSE [threw |-> FALSE,
                       title |-> Property(result.fields, "title", "Untitled Note"),
                       processedNote |-> Property(result.fields, "processedNote", "")]

\* processNote: what it returns (threw: it raised instead)
ProcessNote(transcription, reply, today) ==
    IF reply.kind \in {"throws", "timeout"}
      THEN ProcessNoteFallback(transcription, today)
      ELSE LET raw == IF reply.kind = "nocontent" THEN EmptyObjectText ELSE reply.raw
               result == JsonParse(raw)
           IN  IF result.threw \/ result.isNull
                 THEN \* SyntaxError of JSON.parse, TypeError of result.title
                      ProcessNoteFallback(transcription, today)
                 ELSE [threw |-> FALSE,
                       title |-> Property(result.fields, "title", "Untitled Note"),
                       processedNote |->
                           Property(result.fields, "processedNote", transcription)]

\* `if (!transcription)` of the route, without the test
TranscriptionMissingNever(text) == FALSE

\* `if (!transcription)` of the route
TranscriptionMissing(text) == ~Truthy(text)

\* settings?.f
SettingsField(found, f) ==
    IF found = None THEN "undefined" ELSE found[1][f]

\* settings?.keepRawAudio as a condition, with the upload always kept
KeepsAudioAlways(found) == TRUE

\* settings?.keepRawAudio as a condition, with the upload never kept
KeepsAudioNever(found) == FALSE

\* settings?.keepRawAudio as a condition
KeepsAudio(found) == Truthy(SettingsField(found, "keepRawAudio"))

\* the status after fs.unlinkSync of the upload, were its failure not caught
StatusAfterUnlinkUncaught(raised) == IF raised THEN 500 ELSE 200

\* the status after the try/catch around fs.unlinkSync of the upload: the
\* catch logs a warning and the route goes on to res.json(note)
StatusAfterUnlink(raised) == 200

NoRequest ==
    [pc |-> "idle", userId |-> "", path |-> "", settings |-> None,
     transcribed |-> "no", transcription |-> "", restructureCalls |-> 0,
     reply |-> None, notesCreated |-> 0, unlink |-> "no",
     status |-> 0, body |-> None]

Answer(r, code, body) == [r EXCEPT !.pc = "done", !.status = code, !.body = body]

SampleNote ==
    [id |-> "sample-note-123",
     userId |-> DemoUser,
     title |-> "Welcome to VoiceNote",
     originalTranscription |-> "Welcome to VoiceNote, ...",
     aiProcessedNote |-> "# Welcome to VoiceNote ...",
     audioFilePath |-> "null",
     language |-> "en",
     createdAt |-> 1]

DemoUserRecord ==
    [id |-> DemoUser,
     username |-> "demo",
     email |-> "demo@example.com",
     createdAt |-> 1]

DemoSettings ==
    [id |-> "demo-settings-123",
     userId |-> DemoUser,
     outputLanguage |-> "en",
     noteOrganizationStyle |-> "structured",
     keepRawAudio |-> "false"]

Puts == 1..MaxPuts
Deletes == 1..MaxDeletes
Signups == 1..MaxSignups

NoPut ==
    [pc |-> "idle", userId |-> "", body |-> None, existing |-> None, status |-> 0]
NoDelete ==
    [pc |-> "idle", id |-> "", note |-> None, unlink |-> "no", deleted |-> FALSE,
     status |-> 0]
NoSignup ==
    [pc |-> "idle", email |-> "", username |-> "", existing |-> None,
     user |-> None, settings |-> None, status |-> 0]
NoAudio == [status |-> 0, filename |-> <<>>, sent |-> ""]

(***************************************************************************)
(* The event loop.  A handler that awaits a repository method is resumed   *)
(* from the microtask queue; the queue is run to its end before the next   *)
(* callback of the loop, so handlers come to overlap at these awaits only  *)
(* when their requests are dispatched before the queue is run.             *)
(***************************************************************************)
Quiet == microtasks = <<>>
Continuation(kind, id) == [kind |-> kind, id |-> id]
Suspend(kind, id) ==
    /\ microtasks' = Append(microtasks, Continuation(kind, id))
    /\ draining' = draining
\* the handler at the head of the queue runs on; again: up to another await
Resumes(kind, id) == microtasks # <<>> /\ Head(microtasks) = Continuation(kind, id)
Resume(kind, id, again) ==
    /\ microtasks' = IF again THEN Append(Tail(microtasks), Continuation(kind, id))
                              ELSE Tail(microtasks)
    /\ draining' = (microtasks' # <<>>)

ServerInit ==
    /\ notes = <<[key |-> SampleNote.id, value |-> SampleNote]>>
    /\ settings = <<[key |-> DemoSettings.id, value |-> DemoSettings]>>
    /\ files = {}
    /\ uuids = 0
    /\ uploads = 0
    /\ req = [r \in Requests |-> NoRequest]
    /\ users = <<[key |-> DemoUserRecord.id, value |-> DemoUserRecord]>>
    /\ clock = 1
    /\ put = [p \in Puts |-> NoPut]
    /\ del = [d \in Deletes |-> NoDelete]
    /\ usr = [u \in Signups |-> NoSignup]
    /\ audio = NoAudio
    /\ microtasks = <<>>
    /\ draining = FALSE

(***************************************************************************)
(* POST /api/notes/process-audio, up to `await transcribeAudio`.  multer   *)
(* has written the upload (when the request carries one) before the        *)
(* handler runs; getUserSettings reads the Map when it is called.          *)
(***************************************************************************)
ProcessAudioArrives(r, userId, hasFile) ==
    /\ req[r].pc = "idle"
    /\ Quiet
    /\ LET path == UploadPath(uploads + 1)
           arrived == [req[r] EXCEPT !.userId = userId,
                                     !.path = IF hasFile THEN path ELSE ""]
       IN  /\ uploads' = IF hasFile THEN uploads + 1 ELSE uploads
           /\ files' = IF hasFile THEN files \cup {path} ELSE files
           /\ req' = [req EXCEPT ![r] =
                  IF ~Truthy(userId) THEN Answer(arrived, 401, None)
                  ELSE IF ~hasFile THEN Answer(arrived, 400, None)
                  ELSE [arrived EXCEPT !.pc = "transcribing",
                                       !.settings = GetUserSettings(userId)]]
    /\ UNCHANGED <<notes, settings, users, uuids, clock, put, del, usr, audio, loopVars>>

(***************************************************************************)
(* transcribeAudio settles: it raises (outcome "throws": the route's catch *)
(* answers 500) or returns a text; with a text the route goes on to call   *)
(* processNote, which goes up to `await openai.chat.completions.create`.   *)
(***************************************************************************)
TranscribeReturns(r, outcome, text) ==
    /\ req[r].pc = "transcribing"
    /\ Quiet
    /\ req' = [req EXCEPT ![r] =
           IF outcome = "throws"
             THEN Answer([@ EXCEPT !.transcribed = "throws"], 500, None)
           ELSE IF TranscriptionMissing(text)
             THEN Answer([@ EXCEPT !.transcribed = "text", !.transcription = text],
                         400, None)
           ELSE [@ EXCEPT !.transcribed = "text",
                          !.transcription = text,
                          !.pc = "restructuring",
                          !.restructureCalls = @ + 1]]
    /\ UNCHANGED <<storeVars, put, del, usr, audio, loopVars>>

(***************************************************************************)
(* chat.completions.create settles and the route runs to its end:          *)
(* processNote returns, the note is created, the upload is unlinked unless *)
(* it is kept (unlinkFails: unlinkSync raises), the note is answered.      *)
(***************************************************************************)
RestructureReturns(r, reply, today, unlinkFails) ==
    /\ req[r].pc = "restructuring"
    /\ Quiet
    /\ LET q == [req[r] EXCEPT !.reply = Some(reply)]
           made == ProcessNote(q.transcription, reply, today)
           language == OrElse(SettingsField(q.settings, "outputLanguage"), "en")
           keep == KeepsAudio(q.settings)
           noteData == [userId |-> q.userId,
                        title |-> made.title,
                        originalTranscription |-> q.transcription,
                        aiProcessedNote |-> made.processedNote,
                        audioFilePath |-> IF keep THEN q.path ELSE "undefined",
                        language |-> language]
           note == NewNote(noteData, Uuid(uuids + 1))
           removed == ~keep /\ ~unlinkFails /\ q.path \in files
           status == StatusAfterUnlink(~keep /\ ~removed)
       IN  IF made.threw
             THEN /\ req' = [req EXCEPT ![r] = Answer(q, 500, None)]
                  /\ UNCHANGED <<notes, files, uuids>>
             ELSE /\ uuids' = uuids + 1
                  /\ notes' = MapSet(notes, note.id, note)
                  /\ files' = IF removed THEN files \ {q.path} ELSE files
                  /\ req' = [req EXCEPT ![r] =
                         Answer([q EXCEPT !.notesCreated = @ + 1,
                                          !.unlink = IF keep THEN "no"
                                                     ELSE IF removed THEN "done"
                                                     ELSE "raised"],
                                status,
                                IF status = 200 THEN Some(note) ELSE None)]
    /\ UNCHANGED <<settings, users, uploads, clock, put, del, usr, audio, loopVars>>

\* the bodies of PUT /api/settings explored
SettingsBodies ==
    {[keepRawAudio |-> "true"], [keepRawAudio |-> "false"],
     [noteOrganizationStyle |-> "narrative"]}

\* the comparator of getNotesByUserId, the other way round
CompareOldestFirst(a, b) == a.createdAt - b.createdAt

\* the comparator of getNotesByUserId: negative when a is to come first
CompareNewestFirst(a, b) == b.createdAt - a.createdAt

\* Array.prototype.sort with that comparator, which is stable: x goes behind
\* the elements that are not to come after it
RECURSIVE SortInsert(_, _)
SortInsert(sorted, x) ==
    IF sorted = <<>> THEN <<x>>
    ELSE IF CompareNewestFirst(Head(sorted), x) <= 0
      THEN <<Head(sorted)>> \o SortInsert(Tail(sorted), x)
    ELSE <<x>> \o sorted

RECURSIVE Sort(_)
Sort(seq) ==
    IF seq = <<>> THEN <<>>
    ELSE SortInsert(Sort(SubSeq(seq, 1, Len(seq) - 1)), seq[Len(seq)])

\* MemStorage.getNotesByUserId
GetNotesByUserId(userId) ==
    Sort(SelectSeq(MapValues(notes), LAMBDA note : note.userId = userId))

(***************************************************************************)
(* PUT /api/settings with a body the schema accepts, up to the await in    *)
(* createOrUpdateSettings: getUserSettings has read the Map.               *)
(***************************************************************************)
PutSettingsArrives(p, userId, body) ==
    /\ put[p].pc = "idle"
    /\ ~draining
    /\ LET arrived == [put[p] EXCEPT !.userId = userId, !.body = Some(body)] IN
       IF ~Truthy(userId)
         THEN /\ put' = [put EXCEPT ![p] = [NoPut EXCEPT !.pc = "done", !.status = 401]]
              /\ UNCHANGED loopVars
         ELSE /\ put' = [put EXCEPT ![p] =
                     [arrived EXCEPT !.pc = "upserting",
                                     !.existing = GetUserSettings(userId)]]
              /\ Suspend("put", p)
    /\ UNCHANGED <<storeVars, req, del, usr, audio>>

(***************************************************************************)
(* createOrUpdateSettings goes on after its await, with what it had found: *)
(* it stores the merged or the new record, which the route answers.        *)
(***************************************************************************)
PutSettingsResumes(p) ==
    /\ Resumes("put", p)
    /\ LET insertSettings == [userId |-> put[p].userId] @@ put[p].body[1]
           existing == put[p].existing
       IN  /\ settings' = CreateOrUpdateSettings(insertSettings, existing)
           /\ uuids' = IF existing = None THEN uuids + 1 ELSE uuids
           /\ put' = [put EXCEPT ![p] =
                  [NoPut EXCEPT !.pc = "done", !.userId = put[p].userId, !.status = 200]]
    /\ Resume("put", p, FALSE)
    /\ UNCHANGED <<notes, users, files, uploads, clock, req, del, usr, audio>>

(***************************************************************************)
(* DELETE /api/notes/:id, up to `await storage.getNote`.                   *)
(***************************************************************************)
GetNote(id) ==
    LET hits == SelectSeq(notes, LAMBDA e : e.key = id) IN
    IF hits = <<>> THEN None ELSE Some(Head(hits).value)

\* MemStorage.deleteNote answering true whatever Map.delete returned
DeleteNoteAlwaysTrue(existed) == TRUE

\* MemStorage.deleteNote: what it returns, given whether the key was present
DeleteNote(existed) == existed

DeleteArrives(d, id) ==
    /\ del[d].pc = "idle"
    /\ ~draining
    /\ del' = [del EXCEPT ![d] = [@ EXCEPT !.pc = "fetched", !.id = id,
                                          !.note = GetNote(id)]]
    /\ Suspend("delete", d)
    /\ UNCHANGED <<storeVars, req, put, usr, audio>>

(***************************************************************************)
(* The DELETE handler goes on with the note it had read: 404 without one;  *)
(* else it unlinks the note's file when that exists (unlinkFails: the      *)
(* unlink raises, which is caught) and calls deleteNote, whose result      *)
(* decides between 404 and success.                                        *)
(***************************************************************************)
DeleteResumes(d, unlinkFails) ==
    /\ Resumes("delete", d)
    /\ LET q == del[d]
           path == IF q.note = None THEN "null" ELSE q.note[1].audioFilePath
           tries == q.note # None /\ Truthy(path) /\ path \in files
           deleted == DeleteNote(MapHas(notes, q.id))
       IN  IF q.note = None
             THEN /\ del' = [del EXCEPT ![d] = [q EXCEPT !.pc = "done", !.status = 404]]
                  /\ UNCHANGED <<notes, files>>
             ELSE /\ files' = IF tries /\ ~unlinkFails THEN files \ {path} ELSE files
                  /\ notes' = MapDelete(notes, q.id)
                  /\ del' = [del EXCEPT ![d] =
                         [q EXCEPT !.pc = "done",
                                   !.unlink = IF ~tries THEN "no"
                                              ELSE IF unlinkFails THEN "raised"
                                              ELSE "done",
                                   !.deleted = deleted,
                                   !.status = IF deleted THEN 200 ELSE 404]]
    /\ Resume("delete", d, FALSE)
    /\ UNCHANGED <<settings, users, uuids, uploads, clock, req, put, usr, audio>>

\* the emails and usernames of POST /api/users explored
Emails == {"demo@example.com", "ann@example.com"}
Usernames == {"demo", "ann"}

\* MemStorage.getUserByEmail
GetUserByEmail(email) ==
    LET hits == SelectSeq(MapValues(users), LAMBDA user : user.email = email) IN
    IF hits = <<>> THEN None ELSE Some(Head(hits))

\* MemStorage.createUser: the User it builds
NewUser(insertUser, id) ==
    [id |-> id,
     username |-> insertUser.username,
     email |-> insertUser.email,
     createdAt |-> clock]

\* the default settings POST /api/users stores for the user
SignupSettings(userId) ==
    [userId |-> userId,
     outputLanguage |-> "en",
     noteOrganizationStyle |-> "minimal",
     keepRawAudio |-> "true"]

(***************************************************************************)
(* POST /api/users with a body the schema accepts, up to                   *)
(* `await storage.getUserByEmail`.                                         *)
(***************************************************************************)
SignupArrives(u, email, username) ==
    /\ usr[u].pc = "idle"
    /\ ~draining
    /\ usr' = [usr EXCEPT ![u] = [@ EXCEPT !.pc = "checking",
                                          !.email = email,
                                          !.username = username,
                                          !.existing = GetUserByEmail(email)]]
    /\ Suspend("signup", u)
    /\ UNCHANGED <<storeVars, req, put, del, audio>>

(***************************************************************************)
(* The POST /api/users handler goes on to its next await:                  *)
(*   checking  : 400 when getUserByEmail had found a user; else createUser *)
(*               stores the user                                           *)
(*   created   : createOrUpdateSettings is called and reads the Map        *)
(*   upserting : createOrUpdateSettings stores the settings; the route     *)
(*               answers the user                                          *)
(***************************************************************************)
SignupResumes(u) ==
    /\ Resumes("signup", u)
    /\ LET q == usr[u] IN
       CASE q.pc = "checking" /\ q.existing # None ->
              /\ usr' = [usr EXCEPT ![u] = [q EXCEPT !.pc = "done", !.status = 400]]
              /\ Resume("signup", u, FALSE)
              /\ UNCHANGED <<users, settings, uuids>>
         [] q.pc = "checking" /\ q.existing = None ->
              LET user == NewUser(q, Uuid(uuids + 1)) IN
              /\ users' = MapSet(users, user.id, user)
              /\ uuids' = uuids + 1
              /\ usr' = [usr EXCEPT ![u] = [q EXCEPT !.pc = "created", !.user = Some(user)]]
              /\ Resume("signup", u, TRUE)
              /\ UNCHANGED settings
         [] q.pc = "created" ->
              /\ usr' = [usr EXCEPT ![u] =
                     [q EXCEPT !.pc = "upserting",
                               !.settings = GetUserSettings(q.user[1].id)]]
              /\ Resume("signup", u, TRUE)
              /\ UNCHANGED <<users, settings, uuids>>
         [] q.pc = "upserting" ->
              /\ settings' = CreateOrUpdateSettings(SignupSettings(q.user[1].id), q.settings)
              /\ uuids' = IF q.settings = None THEN uuids + 1 ELSE uuids
              /\ usr' = [usr EXCEPT ![u] = [q EXCEPT !.pc = "done", !.status = 200]]
              /\ Resume("signup", u, FALSE)
              /\ UNCHANGED users
    /\ UNCHANGED <<notes, files, uploads, clock, req, put, del, audio>>

(***************************************************************************)
(* GET /api/audio/:filename.  The route parameter is one segment of the    *)
(* URL, URL-decoded: a filename is here the sequence of the parts of the   *)
(* decoded text between its "/" (more than one part: it came with %2F).    *)
(***************************************************************************)
AudioFilenames == {<<"audio-1.webm">>, <<"..", "package.json">>}

\* files of the server's working directory, outside uploads/
ProjectFiles == {"package.json"}

\* path.normalize on the parts of a relative path: ".." takes back a part
RECURSIVE Normalize(_, _)
Normalize(done, parts) ==
    IF parts = <<>> THEN done
    ELSE IF Head(parts) = "." THEN Normalize(done, Tail(parts))
    ELSE IF Head(parts) = ".." /\ done # <<>> /\ done[Len(done)] # ".."
      THEN Normalize(SubSeq(done, 1, Len(done) - 1), Tail(parts))
    ELSE Normalize(Append(done, Head(parts)), Tail(parts))

\* the parts written as a path
RECURSIVE PathText(_)
PathText(parts) ==
    IF parts = <<>> THEN "."
    ELSE IF Len(parts) = 1 THEN parts[1]
    ELSE parts[1] \o "/" \o PathText(Tail(parts))

\* path.join("uploads", filename)
PathJoin(filename) == PathText(Normalize(<<>>, <<"uploads">> \o filename))

\* fs.existsSync
ExistsSync(path) == path \in files \cup ProjectFiles

\* the handler: 404 when the joined path does not exist, else the file at it
AudioAnswer(filename) ==
    IF ~ExistsSync(PathJoin(filename))
      THEN [status |-> 404, filename |-> filename, sent |-> ""]
      ELSE [status |-> 200, filename |-> filename, sent |-> PathJoin(filename)]

AudioRequested(filename) ==
    /\ Quiet
    /\ audio' = AudioAnswer(filename)
    /\ UNCHANGED <<storeVars, req, put, del, usr, loopVars>>

\* a file under uploads/ is removed by something other than the server
FileVanishes(path) ==
    /\ path \in files
    /\ files' = files \ {path}
    /\ UNCHANGED <<notes, settings, users, uuids, uploads, clock,
                   req, put, del, usr, audio, loopVars>>

\* some time passes on the server's clock
TimePasses ==
    /\ clock < MaxClock
    /\ clock' = clock + 1
    /\ UNCHANGED <<notes, settings, users, files, uuids, uploads,
                   req, put, del, usr, audio, loopVars>>

InterfaceInit ==
    /\ isProcessing = FALSE
    /\ mutation = "idle"
    /\ toast = "none"

Init == CaptureInit /\ InterfaceInit /\ ServerInit

InterfaceIdle == UNCHANGED interfaceVars
CaptureIdle == UNCHANGED <<captureVars, interfaceVars>>
ServerIdle == UNCHANGED serverVars

Next ==
    \/ StartCall /\ InterfaceIdle /\ ServerIdle
    \/ StartDenied /\ InterfaceIdle /\ ServerIdle
    \/ StartAcquired /\ InterfaceIdle /\ ServerIdle
    \/ StartFailsAfterAcquire /\ InterfaceIdle /\ ServerIdle
    \/ \E r \in Recorders, nonEmpty \in BOOLEAN :
          DataAvailable(r, nonEmpty) /\ InterfaceIdle /\ ServerIdle
    \/ PauseRecording /\ InterfaceIdle /\ ServerIdle
    \/ StopRecording /\ InterfaceIdle /\ ServerIdle
    \/ \E t \in Recorders : NearEnds(duration) /\ Tick(t) /\ InterfaceIdle /\ ServerIdle
    \/ \E t \in Recorders :
          /\ ~NearEnds(duration)
          /\ TickRun(t, MAX_DURATION - SlowTicks - duration)
          /\ InterfaceIdle /\ ServerIdle
    \/ \E r \in Recorders, nonEmpty \in BOOLEAN : OnStop(r, nonEmpty) /\ InterfaceIdle /\ ServerIdle
    \/ \E r \in Recorders : TracksEnded(r) /\ InterfaceIdle /\ ServerIdle
    \/ ResetRecording /\ InterfaceIdle /\ ServerIdle
    \/ LeaveView /\ InterfaceIdle /\ ServerIdle

\* the capture controller in the browser
Spec == Init /\ [][Next]_vars

ServerNext ==
    \/ \E r \in Requests, userId \in UserHeaders, hasFile \in BOOLEAN :
          ProcessAudioArrives(r, userId, hasFile) /\ CaptureIdle
    \/ \E r \in Requests, outcome \in {"throws", "text"}, text \in Transcripts :
          TranscribeReturns(r, outcome, text) /\ CaptureIdle
    \/ \E r \in Requests, reply \in Replies, today \in Dates,
          unlinkFails \in BOOLEAN :
          RestructureReturns(r, reply, today, unlinkFails) /\ CaptureIdle
    \/ \E p \in 1..MaxPipelinePuts, userId \in UserHeaders, body \in SettingsBodies :
          PutSettingsArrives(p, userId, body) /\ CaptureIdle
    \/ \E p \in 1..MaxPipelinePuts : PutSettingsResumes(p) /\ CaptureIdle

\* the process-audio pipeline beside updates of the settings
SpecServer == Init /\ [][ServerNext]_vars

\* the ids DELETE /api/notes/:id is requested with
NoteIds == {SampleNote.id} \cup {Uuid(n) : n \in 1..MaxRequests}

NotesNext ==
    \/ \E r \in Requests :
          ProcessAudioArrives(r, DemoUser, TRUE) /\ CaptureIdle
    \/ \E r \in Requests :
          TranscribeReturns(r, "text", "hello world") /\ CaptureIdle
    \/ \E r \in Requests, unlinkFails \in BOOLEAN :
          RestructureReturns(r, [kind |-> "throws"], "11/4/2026", unlinkFails)
            /\ CaptureIdle
    \/ PutSettingsArrives(1, DemoUser, [keepRawAudio |-> "true"]) /\ CaptureIdle
    \/ PutSettingsResumes(1) /\ CaptureIdle
    \/ \E d \in Deletes, id \in NoteIds : DeleteArrives(d, id) /\ CaptureIdle
    \/ \E d \in Deletes, unlinkFails \in BOOLEAN :
          DeleteResumes(d, unlinkFails) /\ CaptureIdle
    \/ \E filename \in AudioFilenames : AudioRequested(filename) /\ CaptureIdle
    \/ TimePasses /\ CaptureIdle
    \/ \E path \in files : FileVanishes(path) /\ CaptureIdle

\* the notes, their audio files and their deletion
SpecNotes == Init /\ [][NotesNext]_vars

AccountsNext ==
    \/ \E p \in Puts, userId \in UserHeaders, body \in SettingsBodies :
          PutSettingsArrives(p, userId, body) /\ CaptureIdle
    \/ \E p \in Puts : PutSettingsResumes(p) /\ CaptureIdle
    \/ \E u \in Signups, email \in Emails, username \in Usernames :
          SignupArrives(u, email, username) /\ CaptureIdle
    \/ \E u \in Signups : SignupResumes(u) /\ CaptureIdle

\* the users and their settings
SpecAccounts == Init /\ [][AccountsNext]_vars

(***************************************************************************)
(* The recording interface.  Its buttons are disabled while isProcessing   *)
(* or processMutation.isPending; the pause button also while not           *)
(* recording, the reset button also while not recording with duration 0.   *)
(***************************************************************************)
Disabled == isProcessing \/ mutation = "pending"

\* handleRecord after `await stopRecording()` gave it result: a blob starts
\* the upload
StartsProcessing(result) == result.status = "resolved" /\ result.blob # Null

\* the record button: handleRecord, with the isRecording of the current render
HandleRecord ==
    /\ mounted
    /\ ~Disabled
    /\ IF isRecording
         THEN /\ StopRecording
              /\ isProcessing' = (isProcessing \/ StartsProcessing(stopResult'))
              /\ mutation' = IF StartsProcessing(stopResult') THEN "pending" ELSE mutation
              /\ toast' = toast
         ELSE StartCall /\ InterfaceIdle

\* the stop event of recorder r; when it settles the promise handleRecord
\* awaits, handleRecord goes on: setIsProcessing(true), mutate(blob)
OnStopInInterface(r, nonEmpty) ==
    /\ OnStop(r, nonEmpty)
    /\ IF r \in resolving
         THEN /\ isProcessing' = (isProcessing \/ StartsProcessing(stopResult'))
              /\ mutation' = IF StartsProcessing(stopResult') THEN "pending" ELSE mutation
              /\ toast' = toast
         ELSE InterfaceIdle

\* the pause button
PauseButton == ~(~isRecording \/ Disabled) /\ PauseRecording /\ InterfaceIdle

\* the reset button
ResetButton ==
    /\ ~((~isRecording /\ duration = 0) \/ Disabled)
    /\ ResetRecording
    /\ InterfaceIdle

\* the request of processMutation succeeds: onSuccess shows the toast, calls
\* resetRecording() and onNoteCreated(), which has Home show the library
MutationSucceeds ==
    /\ mutation = "pending"
    /\ mutation' = "success"
    /\ toast' = "created"
    /\ ClearInterval
    /\ liveStreams' = liveStreams \ {streamRef}
    /\ streamRef' = 0
    /\ isRecording' = FALSE
    /\ isPaused' = FALSE
    /\ duration' = 0
    /\ audioBlob' = Null
    /\ chunksRef' = <<>>
    /\ mediaRecorderRef' = 0
    /\ mounted' = FALSE
    /\ UNCHANGED <<isProcessing, recState, stopQueued, resolving, delivered,
                   acquired, pendingStarts, stopResult, startResult>>

\* the request of processMutation fails (apiRequest rejects): onError shows
\* the toast and logs
MutationFails ==
    /\ mutation = "pending"
    /\ mutation' = "error"
    /\ toast' = "failed"
    /\ UNCHANGED <<isProcessing, captureVars>>

InterfaceNext ==
    \/ HandleRecord /\ ServerIdle
    \/ StartDenied /\ InterfaceIdle /\ ServerIdle
    \/ StartAcquired /\ InterfaceIdle /\ ServerIdle
    \/ StartFailsAfterAcquire /\ InterfaceIdle /\ ServerIdle
    \/ \E r \in Recorders, nonEmpty \in BOOLEAN :
          DataAvailable(r, nonEmpty) /\ InterfaceIdle /\ ServerIdle
    \/ PauseButton /\ ServerIdle
    \/ ResetButton /\ ServerIdle
    \/ \E t \in Recorders :
          NearEnds(duration) /\ Tick(t) /\ InterfaceIdle /\ ServerIdle
    \/ \E t \in Recorders :
          /\ ~NearEnds(duration)
          /\ TickRun(t, MAX_DURATION - SlowTicks - duration)
          /\ InterfaceIdle
          /\ ServerIdle
    \/ \E r \in Recorders, nonEmpty \in BOOLEAN :
          OnStopInInterface(r, nonEmpty) /\ ServerIdle
    \/ \E r \in Recorders : TracksEnded(r) /\ InterfaceIdle /\ ServerIdle
    \/ MutationSucceeds /\ ServerIdle
    \/ MutationFails /\ ServerIdle

\* the recording interface driving the capture controller
SpecInterface == Init /\ [][InterfaceNext]_vars

(***************************************************************************)
(* The note operations of MemStorage called directly (no route calls       *)
(* updateNote).  Their bodies hold no await: each runs in one step.        *)
(***************************************************************************)

\* the insertNote values createNote is called with
InsertNotes ==
    {[userId |-> userId,
      title |-> "a title",
      originalTranscription |-> "hello world",
      aiProcessedNote |-> "hello world",
      audioFilePath |-> "undefined",
      language |-> "en"] : userId \in {DemoUser, OtherUser}}

\* the updates values updateNote is called with: Partial<Note>, so any field
\* of a Note may be among them
NoteUpdates ==
    {[title |-> "renamed"], [id |-> "renamed-id"], [createdAt |-> clock]}

\* { ...existingNote, ...updates }
UpdatedNote(existingNote, updates) == updates @@ existingNote

\* MemStorage.createNote
CreateNote(insertNote) ==
    /\ uuids < MaxCreates
    /\ LET note == NewNote(insertNote, Uuid(uuids + 1)) IN
        /\ uuids' = uuids + 1
        /\ notes' = MapSet(notes, note.id, note)
    /\ UNCHANGED <<settings, users, files, uploads, clock, req, put, del, usr,
                   audio, loopVars>>

\* MemStorage.updateNote for an id that is present (it changes nothing and
\* returns undefined for any other)
UpdateNote(id, updates) ==
    /\ GetNote(id) # None
    /\ notes' = MapSet(notes, id, UpdatedNote(GetNote(id)[1], updates))
    /\ UNCHANGED <<settings, users, files, uuids, uploads, clock, req, put, del,
                   usr, audio, loopVars>>

\* MemStorage.deleteNote for an id that is present
DeleteNoteCall(id) ==
    /\ DeleteNote(MapHas(notes, id))
    /\ notes' = MapDelete(notes, id)
    /\ UNCHANGED <<settings, users, files, uuids, uploads, clock, req, put, del,
                   usr, audio, loopVars>>

\* the keys of the notes Map
NoteKeys == {notes[i].key : i \in 1..Len(notes)}

RepositoryNext ==
    \/ \E insertNote \in InsertNotes : CreateNote(insertNote) /\ CaptureIdle
    \/ \E id \in NoteKeys, updates \in NoteUpdates :
          UpdateNote(id, updates) /\ CaptureIdle
    \/ \E id \in NoteKeys : DeleteNoteCall(id) /\ CaptureIdle
    \/ TimePasses /\ CaptureIdle

\* the notes of the repository under direct calls
SpecRepository == Init /\ [][RepositoryNext]_vars

(***************************************************************************)
(* Claims about the capture controller.                                    *)
(***************************************************************************)

\* the step is the interval callback finding the cap reached during a recording
AutoStopStep ==
    /\ isRecording
    /\ mediaRecorderRef # 0
    /\ recState[mediaRecorderRef] # "inactive"
    /\ TickStops(duration)
    /\ \E t \in timers : Tick(t)

\* C1: the automatic stop at the cap does what a manual stopRecording does
\* during a recording: the MediaRecorder is stopped and its stop event (which
\* finalizes the blob and releases the stream) is queued, the timer is
\* cleared and isRecording becomes false.
C1_AutoStopAsManualStop ==
    [][AutoStopStep =>
         /\ recState'[mediaRecorderRef] = "inactive"
         /\ mediaRecorderRef \in stopQueued'
         /\ ~isRecording'
         /\ intervalRef' = 0]_vars

\* nothing of the session is in flight: no startRecording is suspended and no
\* stop event is queued
Quiescent == pendingStarts = 0 /\ stopQueued = {}

\* C2: once nothing is in flight, a session that is not recording holds no
\* live stream: every stream startRecording acquired has been released.
C2_StreamReleased ==
    (Quiescent /\ ~isRecording) => liveStreams = {}

\* C3: the elapsed-seconds counter stays within 0..900.
C3_DurationBounded == duration \in 0..MAX_DURATION

\* C3 witness: the cap was reached and a later tick found it reached
C3_Witness == duration = MAX_DURATION /\ ~isRecording /\ acquired > 0

\* C4: the session leaves Recording on the tick that makes duration 900: it
\* is never recording with duration at the cap.
C4_StopsAtCap == isRecording => duration < MAX_DURATION

\* the step is the stop event of recorder r, stopped by stopRecording, while r
\* and its stream are still the ones the refs hold (no reset and no other
\* startRecording since r was started)
FinalizeStep(r) ==
    /\ r \in stopQueued
    /\ r \in resolving
    /\ r \notin stopQueued'
    /\ mediaRecorderRef = r
    /\ streamRef = r

\* C5: the artifact stopRecording resolves to is the in-order concatenation
\* of exactly the non-empty segments its recorder delivered since the start.
C5_ArtifactIsDeliveredSegments ==
    [][\A r \in Recorders :
         FinalizeStep(r) =>
           stopResult' = Resolved(NewBlob(delivered'[r]))]_vars

Done(r) == req[r].pc = "done"

\* transcribeAudio returned a non-empty text to the request
Transcribed(r) == req[r].transcribed = "text" /\ req[r].transcription # ""

\* transcribeAudio raised, or returned the empty text
TranscriptionFailed(r) ==
    \/ req[r].transcribed = "throws"
    \/ req[r].transcribed = "text" /\ req[r].transcription = ""

\* the notes in the repository that hold this value
Stored(note) == {i \in 1..Len(notes) : notes[i].value = note}

\* C7: a request whose transcription returned a non-empty text has, once
\* answered, created exactly one Note, and that Note is the answer and is in
\* the repository under its id, whatever the restructuring call did.
C7_OneNotePersisted ==
    \A r \in Requests :
        (Done(r) /\ Transcribed(r)) =>
            /\ req[r].notesCreated = 1
            /\ req[r].status = 200
            /\ req[r].body # None
            /\ \E i \in 1..Len(notes) :
                  /\ notes[i].key = req[r].body[1].id
                  /\ notes[i].value = req[r].body[1]
            /\ Cardinality(Stored(req[r].body[1])) = 1

\* C7 witness: a request was answered after its restructuring call raised
C7_Witness ==
    \E r \in Requests :
        /\ Done(r)
        /\ Transcribed(r)
        /\ req[r].reply = Some([kind |-> "throws"])
        /\ req[r].status = 200

\* the reply is the text of an object with both fields of the output schema
MatchesSchema(reply) ==
    /\ reply.kind = "content"
    /\ reply.raw.json = "object"
    /\ DOMAIN reply.raw.fields = {"title", "processedNote"}

\* the restructuring call failed: it raised, timed out, or its response is
\* malformed or does not match the output schema
RestructureFailed(reply) == ~MatchesSchema(reply)

\* C8: when the restructuring call failed, the Note created has the raw
\* transcript as aiProcessedNote and the title "Voice Note <date>".
C8_FallbackOnFailure ==
    \A r \in Requests :
        (Done(r) /\ req[r].body # None /\ RestructureFailed(req[r].reply[1])) =>
            /\ req[r].body[1].aiProcessedNote = req[r].transcription
            /\ req[r].body[1].title \in {"Voice Note " \o d : d \in Dates}

\* C9: a request whose transcription raised or returned the empty text is
\* answered with an error, without a restructuring call and without a Note;
\* the repository holds the sample note and the Notes the requests created.
C9_TranscriptionFailureTerminal ==
    /\ \A r \in Requests :
          TranscriptionFailed(r) =>
              /\ Done(r)
              /\ req[r].restructureCalls = 0
              /\ req[r].notesCreated = 0
              /\ req[r].status \in {400, 500}
              /\ req[r].body = None
    /\ Len(notes) = 1 + Cardinality({r \in Requests : req[r].notesCreated = 1})
    /\ \A r \in Requests : req[r].notesCreated \in {0, 1}

\* C9 witness: one transcription raised and another returned the empty text
C9_Witness ==
    \E r1, r2 \in Requests :
        /\ Done(r1) /\ req[r1].transcribed = "throws" /\ req[r1].status = 500
        /\ Done(r2) /\ req[r2].transcribed = "text" /\ req[r2].transcription = ""
        /\ req[r2].status = 400

\* C10: every Note the pipeline creates has a non-empty aiProcessedNote, and
\* processNote returns a non-empty processedNote for every non-empty
\* transcript, reply and date.
C10_ProcessedNoteNeverEmpty ==
    /\ \A r \in Requests :
          req[r].body # None => req[r].body[1].aiProcessedNote # ""
    /\ \A i \in 1..Len(notes) : notes[i].value.aiProcessedNote # ""
    /\ \A t \in Transcripts \ {""}, reply \in Replies, d \in Dates :
          /\ ~ProcessNote(t, reply, d).threw
          /\ ProcessNote(t, reply, d).processedNote # ""

\* C10 witness: a Note was created from a response whose processedNote is
\* the empty string
C10_Witness ==
    \E r \in Requests :
        /\ req[r].body # None
        /\ req[r].reply # None
        /\ req[r].reply[1].kind = "content"
        /\ req[r].reply[1].raw.json = "object"
        /\ "processedNote" \in DOMAIN req[r].reply[1].raw.fields
        /\ req[r].reply[1].raw.fields["processedNote"] = ""

\* the request was answered with the Note it created
Succeeded(r) == Done(r) /\ req[r].status = 200 /\ req[r].body # None

\* the keepRawAudio of the Settings record the request read is v
RetentionRead(r, v) ==
    req[r].settings # None /\ req[r].settings[1].keepRawAudio = v

\* C11 as stated: when the keepRawAudio the request read is false, then after
\* its success the upload no longer exists and the Note has no audioFilePath.
C11_TransientFileGone ==
    \A r \in Requests :
        (Succeeded(r) /\ RetentionRead(r, "false")) =>
            /\ req[r].path \notin files
            /\ req[r].body[1].audioFilePath = "null"

\* C11, amended: when the keepRawAudio the request read is false, then after
\* its success the Note has no audioFilePath, and the upload no longer exists
\* unless its removal raised (which is logged and swallowed).
C11_TransientFileGoneUnlessUnlinkRaised ==
    \A r \in Requests :
        (Succeeded(r) /\ RetentionRead(r, "false")) =>
            /\ req[r].body[1].audioFilePath = "null"
            /\ req[r].unlink \in {"done", "raised"}
            /\ req[r].unlink = "done" => req[r].path \notin files

\* C11 witness: a request of an owner whose keepRawAudio is false succeeded
\* and its upload is gone
C11_Witness ==
    \E r \in Requests :
        /\ Succeeded(r)
        /\ RetentionRead(r, "false")
        /\ req[r].unlink = "done"
        /\ req[r].path \notin files

(***************************************************************************)
(* Claims about the notes and their audio files.                           *)
(***************************************************************************)

\* the stored notes that reference the path
Referencing(path) == {i \in 1..Len(notes) : notes[i].value.audioFilePath = path}

\* the step is the process-audio request r succeeding
SucceedsStep(r) == ~Done(r) /\ Succeeded(r)'

\* the step removes from storage a file that a note stored after the step
\* references, and is not a removal by something other than the server
RemovesReferencedFile ==
    /\ \E i \in 1..Len(notes') :
          /\ notes'[i].value.audioFilePath \in files
          /\ notes'[i].value.audioFilePath \notin files'
    /\ ~ \E path \in files : FileVanishes(path)

\* C12: when the keepRawAudio the request read is true, its success leaves
\* the upload on storage under its generated name and records that path as
\* the Note's audioFilePath; and no step of the server removes a file that a
\* note still stored references.
C12_RetainedFileKept ==
    [][/\ \A r \in Requests :
            (SucceedsStep(r) /\ RetentionRead(r, "true")) =>
                /\ req'[r].path \in {UploadPath(n) : n \in 1..uploads}
                /\ req[r].path \in files => req'[r].path \in files'
                /\ req'[r].body[1].audioFilePath = req'[r].path
                /\ \E i \in 1..Len(notes') :
                      notes'[i].value.audioFilePath = req'[r].path
       /\ ~RemovesReferencedFile]_vars

\* C12 witness: a request of an owner whose keepRawAudio is true succeeded;
\* its file is on storage and its Note, stored, references it
C12_Witness ==
    \E r \in Requests :
        /\ Succeeded(r)
        /\ RetentionRead(r, "true")
        /\ req[r].path \in files
        /\ Referencing(req[r].path) # {}

\* the step is the DELETE handler d going on after its await to its answer
DeleteCompletes(d) == del[d].pc = "fetched" /\ del'[d].pc = "done"

\* C13: a DELETE that goes on with a note still in the repository removes the
\* note and answers success; it removes the note's file when that is on
\* storage, unless the removal raises; with the file missing or the removal
\* raising the note is deleted and the answer is success all the same.
C13_DeleteRemovesNoteAndFile ==
    [][\A d \in Deletes :
         (DeleteCompletes(d) /\ del[d].note # None /\ MapHas(notes, del[d].id)) =>
            LET path == del[d].note[1].audioFilePath IN
            /\ ~MapHas(notes', del[d].id)
            /\ Len(notes') = Len(notes) - 1
            /\ del'[d].status = 200
            /\ (Truthy(path) /\ path \in files) =>
                  \/ del'[d].unlink = "done" /\ path \notin files'
                  \/ del'[d].unlink = "raised" /\ files' = files
            /\ ~(Truthy(path) /\ path \in files) =>
                  del'[d].unlink = "no" /\ files' = files]_vars

\* C13 witness: one DELETE removed its note and the note's file, another
\* removed its note whose file was missing
C13_Witness ==
    \E d1, d2 \in Deletes :
        /\ del[d1].status = 200 /\ del[d1].unlink = "done"
        /\ del[d2].status = 200 /\ del[d2].unlink = "no"
        /\ Truthy(del[d2].note[1].audioFilePath)

\* C14 as stated: deleteNote answers whether the note was there, the note is
\* gone afterwards, and a delete of an id no longer there answers 404 and
\* changes neither the repository nor the file storage.
C14_RepeatedDeleteIdempotent ==
    [][\A d \in Deletes :
         DeleteCompletes(d) =>
            /\ del[d].note # None => del'[d].deleted = MapHas(notes, del[d].id)
            /\ ~MapHas(notes', del[d].id)
            /\ ~MapHas(notes, del[d].id) =>
                  /\ del'[d].status = 404
                  /\ notes' = notes
                  /\ files' = files]_vars

\* C14, amended: as stated, but the file storage is left unchanged by a
\* delete whose handler found no note; a DELETE that had read the note before
\* an overlapping DELETE removed it answers 404 and leaves the repository
\* unchanged, and may still remove the note's file.
C14_RepeatedDeleteIdempotentRepository ==
    [][\A d \in Deletes :
         DeleteCompletes(d) =>
            /\ del[d].note # None => del'[d].deleted = MapHas(notes, del[d].id)
            /\ ~MapHas(notes', del[d].id)
            /\ ~MapHas(notes, del[d].id) =>
                  /\ del'[d].status = 404
                  /\ notes' = notes
                  /\ del[d].note = None => files' = files
                  /\ del[d].note # None =>
                        files \ files' \subseteq {del[d].note[1].audioFilePath}]_vars

\* C14 witness: the same id was deleted twice, the second time by a request
\* that found no note: 200, then 404
C14_Witness ==
    \E d1, d2 \in Deletes :
        /\ del[d1].id = del[d2].id
        /\ del[d1].status = 200 /\ del[d1].deleted
        /\ del[d2].status = 404 /\ del[d2].pc = "done" /\ del[d2].note = None

(***************************************************************************)
(* Claims about the settings and the users.                                *)
(***************************************************************************)

\* the Settings records of the owner
SettingsOf(owner) == {i \in 1..Len(settings) : settings[i].value.userId = owner}

\* the owners of the Settings records
Owners == {settings[i].value.userId : i \in 1..Len(settings)}

\* a createOrUpdateSettings for the owner has completed
UpsertCompleted(owner) ==
    \E p \in Puts : put[p].pc = "done" /\ put[p].status = 200 /\ put[p].userId = owner

\* C15: there is at most one Settings record per owner, and exactly one once
\* a createOrUpdateSettings for that owner has completed, calls that overlap
\* at the await inside createOrUpdateSettings included.
C15_OneSettingsPerOwner ==
    /\ \A owner \in Owners : Cardinality(SettingsOf(owner)) <= 1
    /\ \A owner \in UserHeaders :
          UpsertCompleted(owner) => Cardinality(SettingsOf(owner)) = 1

\* the step is createOrUpdateSettings of request p going on after its await
UpsertCompletes(p) == put[p].pc = "upserting" /\ put'[p].pc = "done"

\* C16: a createOrUpdateSettings for an owner who has one record, stored by
\* an earlier call and read by this one, leaves one record for the owner,
\* under the same key and id: every field the call gives has the call's
\* value, every other field keeps the stored value.
C16_SecondCallMerges ==
    [][\A p \in Puts :
         (/\ UpsertCompletes(p)
          /\ put[p].existing # None
          /\ GetUserSettings(put[p].userId) = put[p].existing
          /\ Cardinality(SettingsOf(put[p].userId)) = 1) =>
            LET owner == put[p].userId
                given == put[p].body[1]
                old == put[p].existing[1]
                i == CHOOSE i \in 1..Len(settings) : settings[i].value.userId = owner
                new == settings'[i].value
            IN  /\ Len(settings') = Len(settings)
                /\ \A j \in 1..Len(settings) : j # i => settings'[j] = settings[j]
                /\ settings'[i].key = settings[i].key
                /\ new.id = old.id
                /\ new.userId = owner
                /\ DOMAIN new = DOMAIN old \cup DOMAIN given
                /\ \A f \in DOMAIN given : new[f] = given[f]
                /\ \A f \in DOMAIN old \ (DOMAIN given \cup {"userId"}) :
                      new[f] = old[f]]_vars

\* C16 witness: two calls for an owner without a record have completed; the
\* one record holds the style the first gave and the keepRawAudio the second
\* gave
C16_Witness ==
    /\ \A p \in Puts : put[p].pc = "done" /\ put[p].userId = OtherUser
    /\ Cardinality(SettingsOf(OtherUser)) = 1
    /\ \E i \in 1..Len(settings) :
          /\ settings[i].value.userId = OtherUser
          /\ settings[i].value.noteOrganizationStyle = "narrative"
          /\ settings[i].value.keepRawAudio = "true"

\* C17: no two User records share an email and no two share a username.
C17_UsersUnique ==
    \A i, j \in 1..Len(users) :
        i # j =>
            /\ users[i].value.email # users[j].value.email
            /\ users[i].value.username # users[j].value.username

(***************************************************************************)
(* Claims about the list of notes, the audio endpoint and the uploads.     *)
(***************************************************************************)

\* C18: getNotesByUserId(owner) holds the stored notes of the owner, each
\* once, and no others; of two of them created at different times the one
\* created later comes first.
C18_NotesNewestFirst ==
    \A owner \in {DemoUser, OtherUser} :
        LET listed == GetNotesByUserId(owner) IN
        /\ \A i \in 1..Len(listed) :
              /\ listed[i].userId = owner
              /\ Stored(listed[i]) # {}
        /\ \A k \in 1..Len(notes) :
              notes[k].value.userId = owner =>
                  Cardinality({i \in 1..Len(listed) : listed[i] = notes[k].value}) = 1
        /\ \A i, j \in 1..Len(listed) :
              (i < j /\ listed[i].createdAt # listed[j].createdAt) =>
                  listed[i].createdAt > listed[j].createdAt

\* C18 witness: the owner has three notes, not all created at the same time,
\* and the list is not in the Map's order
C18_Witness ==
    LET listed == GetNotesByUserId(DemoUser) IN
    /\ Len(listed) = 3
    /\ listed[1].createdAt > listed[3].createdAt
    /\ listed[3] = notes[1].value

\* C19: the audio endpoint serves no filename that holds a path separator,
\* and no file outside the uploads directory.
C19_NoPathTraversal ==
    /\ Len(audio.filename) > 1 => audio.status # 200
    /\ audio.status = 200 => audio.sent \notin ProjectFiles

\* C20: once a process-audio request that came with a file is answered, the
\* file is referenced by a stored Note or is no longer on storage.
C20_NoOrphanUpload ==
    \A r \in Requests :
        (Done(r) /\ req[r].path # "") =>
            \/ req[r].path \notin files
            \/ Referencing(req[r].path) # {}
(***************************************************************************)
(* Claims about the removal of the upload by the pipeline.                 *)
(***************************************************************************)

\* the step removes the upload of request r from storage
UploadRemoved(r) == req[r].path \in files /\ req[r].path \notin files'

\* C21: the pipeline removes the upload of a request only after transcribeAudio
\* has returned a text for that upload: every step that removes the upload is
\* the completion of that request, whose transcription had returned a
\* non-empty text before the step.
C21_DeleteAfterTranscription ==
    [][\A r \in Requests :
          UploadRemoved(r) =>
              /\ Transcribed(r)
              /\ req[r].pc = "restructuring"
              /\ req'[r].unlink = "done"]_vars

C21_Witness ==
    \E r \in Requests :
        /\ Transcribed(r)
        /\ req[r].unlink = "done"
        /\ req[r].path # ""
        /\ req[r].path \notin files

\* C22: when the removal of the upload raises, the request still answers 200
\* with the Note it created, and that Note is in the repository under its id.
C22_UnlinkFailureSwallowed ==
    \A r \in Requests :
        req[r].unlink = "raised" =>
            /\ req[r].status = 200
            /\ req[r].body # None
            /\ req[r].notesCreated = 1
            /\ \E i \in 1..Len(notes) :
                  /\ notes[i].key = req[r].body[1].id
                  /\ notes[i].value = req[r].body[1]

C22_Witness ==
    \E r \in Requests :
        /\ req[r].unlink = "raised"
        /\ Done(r)
        /\ req[r].path \in files
        /\ Stored(req[r].body[1]) # {}

(***************************************************************************)
(* Further claims about the capture controller.                            *)
(***************************************************************************)

\* what resetRecording leaves: nothing accumulated, no recorder, stream or
\* timer referenced
Discarded ==
    /\ ~isRecording
    /\ ~isPaused
    /\ duration = 0
    /\ chunksRef = <<>>
    /\ audioBlob = Null
    /\ mediaRecorderRef = 0
    /\ streamRef = 0
    /\ intervalRef = 0

\* C23: resetRecording leaves isRecording and isPaused false, duration 0, the
\* chunk list empty and audioBlob null, and no step other than one of a
\* startRecording call changes that afterwards: not the dataavailable or stop
\* event of the recorder that was discarded either.
C23_ResetDiscards ==
    [][/\ ResetRecording => Discarded'
       /\ (Discarded /\ pendingStarts = 0 /\ pendingStarts' = 0) => Discarded']_vars

\* the step is a startRecording call failing at getUserMedia
AcquisitionFails ==
    /\ pendingStarts' = pendingStarts - 1
    /\ acquired' = acquired
    /\ startResult' = "rejected"

\* C24: when getUserMedia rejects, startRecording rejects and changes nothing
\* of the session: the flags, duration, the artifact, the refs, the live
\* streams, the timers and the recorders are as before the call.
C24_FailedStartChangesNothing ==
    [][AcquisitionFails =>
         UNCHANGED <<reactVars, refVars, recState, liveStreams, timers>>]_vars

\* C24 witness: a startRecording call of an idle session was rejected and the
\* session is idle, with no timer and no stream
C24_Witness ==
    /\ startResult = "rejected"
    /\ acquired = 0
    /\ ~isRecording /\ ~isPaused /\ duration = 0
    /\ timers = {} /\ liveStreams = {} /\ streamRef = 0 /\ intervalRef = 0

\* C27: duration advances only in a step taken while the session is recording
\* and not paused.
C27_DurationOnlyWhileRecording ==
    [][duration' > duration => (isRecording /\ ~isPaused)]_vars

\* C28: at most one stream and at most one timer are live, and a live one is
\* the one the ref holds.
C28_OneStreamOneTimer ==
    /\ Cardinality(liveStreams) <= 1
    /\ Cardinality(timers) <= 1
    /\ liveStreams \subseteq {streamRef}
    /\ timers \subseteq {intervalRef}

\* the step is the stop event of recorder r while the refs hold a later capture
LateStopStep(r) ==
    /\ r \in stopQueued
    /\ r \notin stopQueued'
    /\ mediaRecorderRef # r
    /\ mediaRecorderRef # 0
    /\ streamRef = mediaRecorderRef

\* C29: the stop event of a recorder that arrives after a new startRecording
\* publishes only segments of the stopped recorder, stops no stream but that
\* recorder's, and leaves the chunk list and the stream of the new capture as
\* they are.
C29_OnStopOwnCapture ==
    [][\A r \in Recorders :
         LateStopStep(r) =>
           /\ audioBlob' # audioBlob => audioBlob' = NewBlob(delivered'[r])
           /\ (liveStreams \ liveStreams') \subseteq {r}
           /\ chunksRef' = chunksRef
           /\ streamRef' = streamRef]_vars

(***************************************************************************)
(* Claims about the identity of a note and about the retention setting.    *)
(***************************************************************************)

\* every note is stored under the key that is its id
KeysAreIds == \A i \in 1..Len(notes) : notes[i].key = notes[i].value.id

\* the step leaves the id and createdAt of every note that is stored under
\* the same key before and after it
IdentityKept ==
    \A i \in 1..Len(notes), j \in 1..Len(notes') :
        notes[i].key = notes'[j].key =>
            /\ notes'[j].value.id = notes[i].value.id
            /\ notes'[j].value.createdAt = notes[i].value.createdAt

\* C26: every note is stored under the key equal to its id (as the sample
\* note is from the start, so after every step), and no step of
\* the repository (createNote, updateNote with any updates, deleteNote)
\* changes the id or createdAt of a note that exists.
C26_NoteIdentityFixed == [][KeysAreIds' /\ IdentityKept]_vars

\* the step is the process-audio request r reading the settings of its user
ReadsSettingsStep(r) == req[r].pc = "idle" /\ req'[r].pc = "transcribing"

\* C30: when a process-audio request reads the settings of its user, whether
\* it is going to keep the upload is what GET /api/settings reports as
\* keepRawAudio for that user at that time, also for a user with no record.
C30_RetentionAsReported ==
    [][\A r \in Requests :
         ReadsSettingsStep(r) =>
           KeepsAudio(req'[r].settings)
             = Truthy(GetSettingsAnswer(req'[r].userId).keepRawAudio)]_vars

(***************************************************************************)
(* Claim about the recording interface.                                    *)
(***************************************************************************)

\* C25: once a process-audio request of the recording interface has failed,
\* the error toast is shown, isProcessing is no longer set and the record
\* button is enabled.
C25_FailureReenablesRecord ==
    mutation = "error" =>
        /\ toast = "failed"
        /\ ~isProcessing
        /\ ~Disabled

====
